---- MODULE Spec2Model ----
(***************************************************************************)
(* Session orchestration and streaming engine of hivematrix-brainhair:     *)
(* ClaudeSession.send_message_stream (the per-turn child process and the   *)
(* decoding of its line protocol), the polling response buffers of         *)
(* chat_routes.py, the session registry, and the approval endpoints with   *)
(* the tool-side helper request_approval.                                  *)
(*                                                                         *)
(* Texts are sequences of atoms (an atom stands for a run of characters);  *)
(* concatenation is \o and str.strip() removes whitespace atoms at both    *)
(* ends.  Python objects reached through references (session objects,      *)
(* buffer dicts, Popen handles) are entries of sequences indexed by their  *)
(* identity; the dictionaries that name them are sets of identities.       *)
(***************************************************************************)
EXTENDS Integers, Sequences, FiniteSets, TLC

----------------------------------------------------------------------------
(* Bounds of the model *)

\* longest exhaustively enumerated child output (in lines)
MaxLen == 3
\* clock advance of one Tick, in seconds
TickStep == 61
\* number of Ticks the clock may take
MaxTicks == 2
\* turns (chat_message requests) accepted in one run
MaxTurns == 2
\* sessions created in one run
MaxSessions == 2
\* largest offset a poll request may carry
MaxOffset == 2
\* poll requests served in one run
MaxPolls == 2
\* calls of the approval endpoints in one run
MaxCalls == 4
\* calls of stop_response and of the destroy_session route in one run
MaxStops == 1
\* runs of cleanup_idle_sessions and waits of the cleanup thread in one run
MaxSweeps == 2
MaxWaits == 3
\* approval requests created in one run
MaxApprovals == 2
\* chat_message requests served in one run (accepted or refused)
MaxChats == 3

(* Program constants *)

\* send_message_stream: idle_timeout
idle_timeout == 120
\* request_approval: default timeout
approval_timeout == 120
\* returncode of a child ended by SIGKILL / SIGTERM
RC_KILLED == -9
RC_TERMINATED == -15
\* _cleanup_loop: cleanup_interval and the max_age_seconds it passes
cleanup_interval == 300
max_age_seconds == 1800

----------------------------------------------------------------------------
(* Texts *)

\* the marker of a key that is absent from a JSON object
NONE == "<absent>"
NoText == <<NONE>>

WhiteAtoms == {" ", "\n"}

RECURSIVE lstrip(_)
lstrip(t) == IF t # <<>> /\ Head(t) \in WhiteAtoms THEN lstrip(Tail(t)) ELSE t

RECURSIVE rstrip(_)
rstrip(t) ==
    IF t # <<>> /\ t[Len(t)] \in WhiteAtoms
    THEN rstrip(SubSeq(t, 1, Len(t) - 1))
    ELSE t

\* str.strip()
strip(t) == rstrip(lstrip(t))

\* atoms that are JSON literals on their own
JsonLiteralAtoms == {"42", "true"}

\* json.loads accepts a text that is one JSON literal with optional
\* surrounding whitespace
IsJsonText(t) == Len(strip(t)) = 1 /\ strip(t)[1] \in JsonLiteralAtoms

----------------------------------------------------------------------------
(* Lines written by the child process *)

\* A line of child output.  parse: "text" (not JSON), "object" (a JSON
\* object) or "scalar" (JSON, but not an object).  wrap counts the
\* stream_event envelopes around the record; type is the innermost type.
LineBase ==
    [parse |-> "object", raw |-> <<>>, wrap |-> 0, type |-> NONE,
     delta |-> "absent", dtype |-> NONE, text |-> NoText,
     stop_reason |-> NONE, block_type |-> NONE, name |-> NONE,
     approval_id |-> NONE]

RawLine(t) == [LineBase EXCEPT !.parse = "text", !.raw = t]
ScalarLine == [LineBase EXCEPT !.parse = "scalar", !.raw = <<"42">>]
Ev(ty) == [LineBase EXCEPT !.type = ty]
TextDelta(t) ==
    [LineBase EXCEPT !.type = "content_block_delta", !.delta = "object",
                     !.dtype = "text_delta", !.text = t]
TextDeltaNoText ==
    [LineBase EXCEPT !.type = "content_block_delta", !.delta = "object",
                     !.dtype = "text_delta"]
InputJsonDelta ==
    [LineBase EXCEPT !.type = "content_block_delta", !.delta = "object",
                     !.dtype = "input_json_delta", !.text = <<"{}">>]
DeltaMissing == Ev("content_block_delta")
DeltaEmpty == [LineBase EXCEPT !.type = "content_block_delta", !.delta = "object"]
DeltaNull == [LineBase EXCEPT !.type = "content_block_delta", !.delta = "null"]
ToolStart(n) ==
    [LineBase EXCEPT !.type = "content_block_start",
                     !.block_type = "tool_use", !.name = n]
TextStart == [LineBase EXCEPT !.type = "content_block_start", !.block_type = "text"]
MessageDelta(sr) ==
    [LineBase EXCEPT !.type = "message_delta", !.delta = "object",
                     !.stop_reason = sr]
MessageStop == Ev("message_stop")
\* a full assistant message with one text content block
AssistantMessage(t) == [LineBase EXCEPT !.type = "assistant", !.text = t]
Result == Ev("result")
ApprovalLine(a) == [LineBase EXCEPT !.type = "approval_request", !.approval_id = a]
Wrapped(l) == [l EXCEPT !.wrap = l.wrap + 1]

----------------------------------------------------------------------------
(* Strings yielded by send_message_stream and entries of a buffer *)

\* a yielded plain text
YText(t) == [kind |-> "text", type |-> NONE, content |-> t, approval_id |-> NONE]
\* json.dumps of a dict
YDumps(ty, c, a) == [kind |-> "dumps", type |-> ty, content |-> c, approval_id |-> a]

LiveMessage(c) == YDumps("live_message", c, NONE)

HungText == <<"\n", "\n", "[Claude Code appears to have hung - terminated]">>
ExitErrorText(rc) ==
    <<"\n", "\n", "[Error: Claude Code exited with code ", ToString(rc), "]">>
InternalErrorText(exc) ==
    <<"\n", "\n", "[Error: Internal server error - ", exc, "]">>
StoppedText == <<"\n", "\n", "_Response stopped by user._">>

\* json.loads(chunk) in collect_response: the value, or a JSONDecodeError
json_loads(y) ==
    IF y.kind = "dumps"
    THEN [ok |-> TRUE,
          val |-> [shape |-> "dict", type |-> y.type, content |-> y.content,
                   approval_id |-> y.approval_id]]
    ELSE IF IsJsonText(y.content)
    THEN [ok |-> TRUE,
          val |-> [shape |-> "scalar", type |-> NONE, content |-> strip(y.content),
                   approval_id |-> NONE]]
    ELSE [ok |-> FALSE,
          val |-> [shape |-> "dict", type |-> NONE, content |-> NoText,
                   approval_id |-> NONE]]

\* the entry collect_response appends for a yielded string
BufferEntry(y) ==
    IF json_loads(y).ok
    THEN json_loads(y).val
    ELSE [shape |-> "dict", type |-> "chunk", content |-> y.content,
          approval_id |-> NONE]

----------------------------------------------------------------------------
(* Decoding of one line: the body of the read loop after the blank test *)

EventType_Inner(l) == l.type

\* the event type the if/elif chain dispatches on, after unwrapping
EventType(l) == IF l.wrap >= 2 THEN "stream_event" ELSE l.type

\* loc: [response_text, current_tool, current_tool_input]; lsr is the
\* session's _last_stop_reason.  ctl is "continue" or "break".
Same(loc, lsr) ==
    [ctl |-> "continue", yields |-> <<>>, loc |-> loc, lsr |-> lsr]

Break(loc, lsr) == [Same(loc, lsr) EXCEPT !.ctl = "break"]

\* lines 432-445: content_block_delta
OnContentBlockDelta(l, loc, lsr) ==
    IF l.delta = "null"
    THEN Same(loc, lsr)
    ELSE IF l.delta = "object" /\ l.dtype = "text_delta"
    THEN LET text == IF l.text = NoText THEN <<>> ELSE l.text IN
         [Same(loc, lsr) EXCEPT
            !.yields = <<YText(text)>>,
            !.loc.response_text = loc.response_text \o text]
    ELSE IF l.delta = "object" /\ l.dtype = "input_json_delta"
    THEN LET partial_json == IF l.text = NoText THEN <<>> ELSE l.text IN
         [Same(loc, lsr) EXCEPT
            !.loc.current_tool_input = loc.current_tool_input \o partial_json]
    ELSE Same(loc, lsr)

\* lines 447-455: content_block_start
OnContentBlockStart(l, loc, lsr) ==
    IF l.block_type = "tool_use"
    THEN [Same(loc, lsr) EXCEPT
            !.loc.current_tool = IF l.name = NONE THEN "unknown" ELSE l.name,
            !.loc.current_tool_input = <<>>]
    ELSE Same(loc, lsr)

\* lines 463-472: message_stop
OnMessageStop(loc, lsr) ==
    IF lsr = "tool_use" THEN Same(loc, lsr) ELSE Break(loc, lsr)

OnResult_KeepsOnToolUse(loc, lsr) ==
    IF lsr = "tool_use" THEN Same(loc, lsr) ELSE Break(loc, lsr)

\* lines 474-476: result
OnResult(loc, lsr) == Break(loc, lsr)

\* lines 490-494: content_block_stop
OnContentBlockStop(loc, lsr) ==
    IF loc.current_tool # NONE
    THEN [Same(loc, lsr) EXCEPT
            !.loc.current_tool = NONE, !.loc.current_tool_input = <<>>]
    ELSE Same(loc, lsr)

\* lines 497-504: message_delta
OnMessageDelta(l, loc, lsr) ==
    IF l.delta = "null"
    THEN Same(loc, lsr)
    ELSE IF l.delta = "object" /\ l.stop_reason # NONE
    THEN [Same(loc, lsr) EXCEPT !.lsr = l.stop_reason]
    ELSE Same(loc, lsr)

\* lines 416-515: the try block of the read loop, for a stripped line
DecodeLine(l, loc, lsr) ==
    LET ty == EventType(l) IN
    IF l.parse = "text"
    THEN [Same(loc, lsr) EXCEPT !.yields = <<LiveMessage(strip(l.raw))>>]
    ELSE IF l.parse = "scalar"
    THEN Same(loc, lsr)
    ELSE IF l.wrap = 0 /\ l.type = "approval_request"
    THEN [Same(loc, lsr) EXCEPT
            !.yields = <<YDumps("approval_request", NoText, l.approval_id)>>]
    ELSE IF ty = "content_block_delta" THEN OnContentBlockDelta(l, loc, lsr)
    ELSE IF ty = "content_block_start" THEN OnContentBlockStart(l, loc, lsr)
    ELSE IF ty = "assistant" THEN Same(loc, lsr)
    ELSE IF ty = "message_stop" THEN OnMessageStop(loc, lsr)
    ELSE IF ty = "result" THEN OnResult(loc, lsr)
    ELSE IF ty = "system"
    THEN [Same(loc, lsr) EXCEPT
            !.yields = <<LiveMessage(<<"Initializing Claude Code...">>)>>]
    ELSE IF ty = "message_start"
    THEN [Same(loc, lsr) EXCEPT
            !.yields = <<LiveMessage(<<"Claude is responding...">>)>>]
    ELSE IF ty = "user" THEN Same(loc, lsr)
    ELSE IF ty = "content_block_stop" THEN OnContentBlockStop(loc, lsr)
    ELSE IF ty = "message_delta" THEN OnMessageDelta(l, loc, lsr)
    ELSE Same(loc, lsr)

----------------------------------------------------------------------------
(* State *)

VARIABLES
    now,                \* time.time()
    claude_bin,         \* whether the claude binary can be located
    child_output,       \* the lines a spawned child writes before it exits
    sessions,           \* session_manager.sessions: ids in the registry
    sess,               \* the ClaudeSession objects, by id
    procs,              \* the Popen children, by pid
    response_buffers,   \* chat_routes.response_buffers: ids in the dict
    buf,                \* the buffer dicts, by response id
    wk,                 \* collect_response threads, by response id
    poll,               \* the poll_response request being served
    client,             \* what the polling client has received so far
    prev_poll,          \* the request and the response of the last served poll
    pending_approvals,  \* chat_routes.pending_approvals: ids in the dict
    appr,               \* the approval dicts, by approval id
    response_files,     \* /tmp/brainhair_approval_response_<id>.json
    request_files,      \* /tmp/brainhair_approval_request_<sid>_*.json
    tool,               \* the tool process running request_approval
    alog,               \* responses of the approval endpoints, in order
    stp,                \* the calls of stop_current_response, by caller
    sweep,              \* the cleanup thread of the session manager
    chat_replies        \* responses of chat_message, in order

vars ==
    <<now, claude_bin, child_output, sessions, sess, procs, response_buffers,
      buf, wk, poll, client, prev_poll, pending_approvals, appr,
      response_files, request_files, tool, alog, stp, sweep, chat_replies>>

envVars == <<claude_bin, child_output>>
mgrVars == <<stp, sweep>>
sessVars == <<sessions, sess>>
chanVars == <<response_buffers, buf>>
pollVars == <<poll, client, prev_poll>>
apprVars == <<pending_approvals, appr, response_files, tool, alog>>

----------------------------------------------------------------------------
(* Child output considered *)

Messages == {<<"hi">>}
ExitCodes == {0, 1}

RECURSIVE SeqsUpTo(_, _)
SeqsUpTo(S, n) ==
    IF n = 0 THEN {<<>>}
    ELSE LET R == SeqsUpTo(S, n - 1) IN
         R \cup {Append(r, x) : r \in {q \in R : Len(q) = n - 1}, x \in S}

\* the records the exhaustive child outputs are built from
CoreLines ==
    {TextDelta(<<"Hel">>), TextDelta(<<"lo">>), ToolStart("Bash"),
     MessageDelta("tool_use"), MessageStop, Result}

\* one record of every other shape the decoder distinguishes
OtherLines ==
    {RawLine(<<"oops">>), RawLine(<<"\n">>), ScalarLine, Ev(NONE), Ev("ping"),
     Ev("system"), Ev("message_start"), Ev("user"), Ev("assistant"),
     Ev("content_block_stop"), TextStart, TextDeltaNoText, InputJsonDelta,
     DeltaMissing, DeltaEmpty, DeltaNull, MessageDelta("end_turn"),
     MessageDelta(NONE), ApprovalLine("a1"), Wrapped(TextDelta(<<"Hel">>)),
     Wrapped(MessageStop), Wrapped(ApprovalLine("a1")),
     Wrapped(Wrapped(TextDelta(<<"Hel">>))), TextDelta(<<"42">>),
     TextDelta(<<" ", "World">>), Wrapped(Result),
     Wrapped(MessageDelta("tool_use")), Wrapped(ToolStart("Bash")),
     Wrapped(Wrapped(Result))}

\* the worked examples of the specification
HelloScript ==
    <<TextDelta(<<"Hel">>), TextDelta(<<"lo">>), MessageDelta(NONE), MessageStop>>
ToolScript ==
    <<ToolStart("Bash"), MessageDelta("tool_use"), MessageStop,
      TextDelta(<<"result text">>), Result>>
\* a turn delivered through a full assistant message only
AssistantScript == <<AssistantMessage(<<"Hello">>), Result>>

Scripts ==
    SeqsUpTo(CoreLines, MaxLen)
    \cup {<<l, TextDelta(<<"lo">>)>> : l \in OtherLines}
    \cup {<<TextDelta(<<"Hel">>), l, TextDelta(<<"lo">>)>> : l \in OtherLines}
    \cup {HelloScript, ToolScript, AssistantScript}

\* child outputs of the runs that study the channel and the registry
ShortScripts ==
    {<<TextDelta(<<"Hel">>), TextDelta(<<"lo">>)>>, <<TextDelta(<<"Hel">>), Result>>}

----------------------------------------------------------------------------
(* Initial state: the server has started, nothing has been requested *)

\* the threads that call stop_current_response: stop_response,
\* the destroy_session route and the cleanup thread
Callers == {"stop", "destroy", "sweep"}

\* no call in progress; status and result are those of the last call
NoStop ==
    [pc |-> "idle", sid |-> 0, rid |-> 0, child |-> 0, result |-> FALSE, status |-> 0,
     calls |-> 0]

\* the cleanup thread between two runs of cleanup_idle_sessions; marked
\* (the sessions found idle by the run in progress) is read by no step
NoSweep ==
    [pc |-> "idle", current_time |-> -1, max_age |-> 0, to_cleanup |-> <<>>,
     marked |-> {}, runs |-> 0, waits |-> 0]

IdlePoll ==
    [pc |-> "idle", rid |-> 0, offset |-> 0, new_chunks |-> <<>>,
     roffset |-> 0, rdone |-> FALSE, rerror |-> NONE, served |-> 0,
     v0 |-> 0, tracked |-> FALSE]

\* a served poll: the request, the response, the write counter of the
\* buffer when the handler had fetched it (v0) and when it returned (v1);
\* repeat: the poll served before it had the same response id and offset,
\* and pv0 is the v0 of that poll
NoPollYet ==
    [rid |-> 0, offset |-> 0, status |-> 0, chunks |-> <<>>, roffset |-> 0,
     done |-> FALSE, error |-> NONE, v0 |-> 0, v1 |-> 0,
     repeat |-> FALSE, pv0 |-> 0]

Repeats(rid, offset) ==
    prev_poll.status # 0 /\ prev_poll.rid = rid /\ prev_poll.offset = offset

InitCommon ==
    /\ now = 0
    /\ sessions = {}
    /\ sess = <<>>
    /\ procs = <<>>
    /\ response_buffers = {}
    /\ buf = <<>>
    /\ wk = <<>>
    /\ poll = IdlePoll
    /\ client = [offset |-> 0, received |-> <<>>, done |-> FALSE,
                 notfound |-> FALSE]
    /\ prev_poll = NoPollYet
    /\ pending_approvals = {}
    /\ appr = <<>>
    /\ response_files = {}
    /\ request_files = {}
    /\ tool = [pc |-> "init", approval_id |-> 0, start_time |-> 0,
               result |-> FALSE]
    /\ alog = <<>>
    /\ stp = [c \in Callers |-> NoStop]
    /\ sweep = NoSweep
    /\ chat_replies = <<>>

----------------------------------------------------------------------------
(* chat_message: POST /api/chat *)

NewSession ==
    [conversation_history |-> <<>>, current_process |-> 0,
     last_activity |-> now, lsr |-> NONE]

NewBuffer_Unbound(sid) ==
    [chunks |-> <<>>, done |-> FALSE, error |-> NONE, session_id |-> 0,
     version |-> 0, appends |-> 0]

\* chat_routes.py lines 93-98
NewBuffer(sid) ==
    [chunks |-> <<>>, done |-> FALSE, error |-> NONE, session_id |-> sid,
     version |-> 0, appends |-> 0]

NewWorker(sid, m) ==
    [pc |-> "start", sid |-> sid, message |-> m, proc |-> 0,
     loc |-> [response_text |-> <<>>, current_tool |-> NONE,
              current_tool_input |-> <<>>],
     last_output_time |-> 0, why |-> "none", decoded |-> <<>>,
     yielded |-> <<>>]

\* what chat_message answered: the request, the status and the ids returned
ChatReply(session_id, message, status, response_id, new_session_id) ==
    [asked |-> session_id, message |-> message, status |-> status,
     response_id |-> response_id, session_id |-> new_session_id]

\* chat_routes.py lines 61-135; session_id 0 stands for a request without
\* session_id, <<>> for an empty or missing message
chat_message(session_id, message) ==
    /\ Len(chat_replies) < MaxChats
    /\ IF message = <<>>
       THEN /\ chat_replies' =
                  Append(chat_replies, ChatReply(session_id, message, 400, 0, 0))
            /\ UNCHANGED <<sessVars, chanVars, wk>>
       ELSE /\ Len(wk) < MaxTurns
            /\ LET create == session_id = 0 \/ session_id \notin sessions
                   sid == IF create THEN Len(sess) + 1 ELSE session_id
                   rid == Len(buf) + 1
               IN /\ create => Len(sess) < MaxSessions
                  /\ sess' = IF create THEN Append(sess, NewSession) ELSE sess
                  /\ sessions' = sessions \cup {sid}
                  /\ buf' = Append(buf, NewBuffer(sid))
                  /\ response_buffers' = response_buffers \cup {rid}
                  /\ wk' = Append(wk, NewWorker(sid, message))
                  /\ chat_replies' =
                        Append(chat_replies,
                               ChatReply(session_id, message, 200, rid, sid))
    /\ UNCHANGED <<now, claude_bin, child_output, mgrVars, procs, pollVars,
                   apprVars, request_files>>

----------------------------------------------------------------------------
(* The child process *)

NewProc(sid) ==
    [state |-> "running", returncode |-> 0, out |-> child_output,
     pipe |-> <<>>, sid |-> sid, killed_by |-> "none", signalled |-> FALSE,
     stopped_for |-> 0]

Running(p) == procs[p].state = "running"

\* the child writes its next line to stdout
ChildWrite(p) ==
    /\ Running(p)
    /\ procs[p].out # <<>>
    /\ procs' = [procs EXCEPT ![p].pipe = Append(@, Head(procs[p].out)),
                              ![p].out = Tail(@)]
    /\ UNCHANGED <<now, envVars, chat_replies, mgrVars, sessVars, chanVars, wk, pollVars, apprVars,
                   request_files>>

\* the child exits by itself once it has written its output
ChildExit(p, rc) ==
    /\ Running(p)
    /\ procs[p].out = <<>>
    /\ procs' = [procs EXCEPT ![p].state = "exited", ![p].returncode = rc]
    /\ UNCHANGED <<now, envVars, chat_replies, mgrVars, sessVars, chanVars, wk, pollVars, apprVars,
                   request_files>>

\* Popen.kill() followed by the reaping of the child; who records the caller
Killed(pr, who) ==
    IF pr.state = "running"
    THEN [pr EXCEPT !.state = "exited", !.returncode = RC_KILLED,
                    !.killed_by = who]
    ELSE pr

\* time passes
Tick ==
    /\ now < MaxTicks * TickStep
    /\ now' = now + TickStep
    /\ UNCHANGED <<envVars, chat_replies, mgrVars, sessVars, procs, chanVars, wk, pollVars, apprVars,
                   request_files>>

----------------------------------------------------------------------------
(* collect_response driving send_message_stream: one thread per turn.      *)
(* A step runs the generator up to its next yield (or its end) and lets    *)
(* collect_response store what was yielded.  Three fields of a thread      *)
(* record the run for the properties and are never read by a step: why     *)
(* (what ended the read loop), decoded (the lines given to the decoder,    *)
(* each with the stop reason remembered before it and the decoder's        *)
(* verdict) and yielded (the strings the generator yielded).               *)

\* buffer['chunks'].append(e); version and appends count the writes
AppendChunk(b, e) ==
    [b EXCEPT !.chunks = Append(@, e), !.version = @ + 1, !.appends = @ + 1]

\* the thread w goes on as nw after the generator yielded ys (at most one
\* string); response_buffers[w] raises KeyError once the entry is deleted,
\* and the handler of collect_response raises it again: the thread dies
Resume(w, nw, ys) ==
    IF ys = <<>>
    THEN /\ wk' = [wk EXCEPT ![w] = nw]
         /\ UNCHANGED chanVars
    ELSE IF w \in response_buffers
    THEN /\ wk' = [wk EXCEPT ![w] = [nw EXCEPT !.yielded = @ \o ys]]
         /\ buf' = [buf EXCEPT ![w] = AppendChunk(@, BufferEntry(ys[1]))]
         /\ UNCHANGED response_buffers
    ELSE /\ wk' = [wk EXCEPT ![w] = [nw EXCEPT !.pc = "crashed",
                                                !.yielded = @ \o ys]]
         /\ UNCHANGED chanVars

WStart_SpawnAnyway(w) ==
    /\ wk[w].pc = "start"
    /\ LET sid == wk[w].sid IN
       sess' = [sess EXCEPT
                  ![sid].last_activity = now,
                  ![sid].conversation_history =
                      Append(@, [role |-> "user", content |-> wk[w].message])]
    /\ Resume(w, [wk[w] EXCEPT !.pc = "spawn"], <<>>)
    /\ UNCHANGED <<now, envVars, chat_replies, mgrVars, sessions, procs, pollVars, apprVars,
                   request_files>>

\* lines 293-353: last_activity, the user turn, the lookup of the binary
WStart(w) ==
    /\ wk[w].pc = "start"
    /\ LET sid == wk[w].sid IN
       sess' = [sess EXCEPT
                  ![sid].last_activity = now,
                  ![sid].conversation_history =
                      Append(@, [role |-> "user", content |-> wk[w].message])]
    /\ IF claude_bin
       THEN Resume(w, [wk[w] EXCEPT !.pc = "spawn"], <<>>)
       ELSE Resume(w, [wk[w] EXCEPT !.pc = "setdone", !.why = "nobinary"],
                   <<YText(InternalErrorText("RuntimeError"))>>)
    /\ UNCHANGED <<now, envVars, chat_replies, mgrVars, sessions, procs, pollVars, apprVars,
                   request_files>>

\* lines 370-393: Popen, current_process, the locals of the read loop
WSpawn(w) ==
    /\ wk[w].pc = "spawn"
    /\ LET sid == wk[w].sid
           pid == Len(procs) + 1
       IN /\ procs' = Append(procs, NewProc(sid))
          /\ sess' = [sess EXCEPT ![sid].current_process = pid,
                                  ![sid].lsr = NONE]
          /\ wk' = [wk EXCEPT ![w].pc = "read", ![w].proc = pid,
                              ![w].last_output_time = now]
    /\ UNCHANGED <<now, envVars, chat_replies, mgrVars, sessions, chanVars, pollVars, apprVars,
                   request_files>>

\* the read loop holds a line: readline returned the head of the pipe
HasLine(w) == wk[w].pc = "read" /\ procs[wk[w].proc].pipe # <<>>
TakeLine(pr) == [pr EXCEPT !.pipe = Tail(@)]
IsBlank(l) == l.parse = "text" /\ strip(l.raw) = <<>>
IdleExceeded(w) == now - wk[w].last_output_time > idle_timeout

\* lines 398-401: the child has terminated, leave the loop
WLineExited(w) ==
    /\ HasLine(w)
    /\ ~Running(wk[w].proc)
    /\ procs' = [procs EXCEPT ![wk[w].proc] = TakeLine(@)]
    /\ wk' = [wk EXCEPT ![w].pc = "after", ![w].why = "exited"]
    /\ UNCHANGED <<now, envVars, chat_replies, mgrVars, sessVars, chanVars, pollVars, apprVars,
                   request_files>>

\* lines 403-408: idle timeout, kill and leave the loop
WLineIdle(w) ==
    /\ HasLine(w)
    /\ Running(wk[w].proc)
    /\ IdleExceeded(w)
    /\ procs' = [procs EXCEPT ![wk[w].proc] = Killed(TakeLine(@), "idle")]
    /\ Resume(w, [wk[w] EXCEPT !.pc = "after", !.why = "idle"],
              <<YText(HungText)>>)
    /\ UNCHANGED <<now, envVars, chat_replies, mgrVars, sessVars, pollVars, apprVars, request_files>>

\* lines 410-411: a blank line is skipped
WLineBlank(w) ==
    /\ HasLine(w)
    /\ Running(wk[w].proc)
    /\ ~IdleExceeded(w)
    /\ IsBlank(Head(procs[wk[w].proc].pipe))
    /\ procs' = [procs EXCEPT ![wk[w].proc] = TakeLine(@)]
    /\ UNCHANGED <<now, envVars, chat_replies, mgrVars, sessVars, chanVars, wk, pollVars, apprVars,
                   request_files>>

\* lines 413-515: the line is decoded
WLineDecode(w) ==
    /\ HasLine(w)
    /\ Running(wk[w].proc)
    /\ ~IdleExceeded(w)
    /\ ~IsBlank(Head(procs[wk[w].proc].pipe))
    /\ LET l == Head(procs[wk[w].proc].pipe)
           sid == wk[w].sid
           d == DecodeLine(l, wk[w].loc, sess[sid].lsr)
           nw == [wk[w] EXCEPT
                    !.loc = d.loc,
                    !.last_output_time = now,
                    !.decoded = Append(@, [l |-> l, lsr |-> sess[sid].lsr,
                                              ctl |-> d.ctl]),
                    !.pc = IF d.ctl = "break" THEN "after" ELSE "read",
                    !.why = IF d.ctl = "break" THEN "terminal" ELSE @]
       IN /\ procs' = [procs EXCEPT ![wk[w].proc] = TakeLine(@)]
          /\ sess' = [sess EXCEPT ![sid].lsr = d.lsr]
          /\ Resume(w, nw, d.yields)
    /\ UNCHANGED <<now, envVars, chat_replies, mgrVars, sessions, pollVars, apprVars, request_files>>

\* readline returns '' at end of file: the child is gone and the pipe empty
WEof(w) ==
    /\ wk[w].pc = "read"
    /\ procs[wk[w].proc].pipe = <<>>
    /\ ~Running(wk[w].proc)
    /\ wk' = [wk EXCEPT ![w].pc = "after", ![w].why = "eof"]
    /\ UNCHANGED <<now, envVars, chat_replies, mgrVars, sessVars, procs, chanVars, pollVars, apprVars,
                   request_files>>

WExitStatus_Silent(w) ==
    /\ wk[w].pc = "after"
    /\ ~Running(wk[w].proc)
    /\ Resume(w, [wk[w] EXCEPT !.pc = "history"], <<>>)
    /\ UNCHANGED <<now, envVars, chat_replies, mgrVars, sessVars, procs, pollVars, apprVars,
                   request_files>>

\* lines 517-527 with the child gone: the exit status is examined
WExitStatus(w) ==
    /\ wk[w].pc = "after"
    /\ ~Running(wk[w].proc)
    /\ LET rc == procs[wk[w].proc].returncode IN
       Resume(w, [wk[w] EXCEPT !.pc = "history"],
              IF rc # 0 THEN <<YText(ExitErrorText(rc))>> ELSE <<>>)
    /\ UNCHANGED <<now, envVars, chat_replies, mgrVars, sessVars, procs, pollVars, apprVars,
                   request_files>>

\* lines 518-523 with the child still running after wait(timeout=10)
WWaitKill(w) ==
    /\ wk[w].pc = "after"
    /\ Running(wk[w].proc)
    /\ procs' = [procs EXCEPT ![wk[w].proc] = Killed(@, "wait")]
    /\ UNCHANGED <<now, envVars, chat_replies, mgrVars, sessVars, chanVars, wk, pollVars, apprVars,
                   request_files>>

WHistory_Rewrites(w) ==
    /\ wk[w].pc = "history"
    /\ sess' = [sess EXCEPT
                  ![wk[w].sid].conversation_history =
                      <<[role |-> "assistant",
                         content |-> strip(wk[w].loc.response_text)]>>]
    /\ wk' = [wk EXCEPT ![w].pc = "setdone"]
    /\ UNCHANGED <<now, envVars, chat_replies, mgrVars, sessions, procs, chanVars, pollVars, apprVars,
                   request_files>>

\* lines 529-542: the assistant turn
WHistory(w) ==
    /\ wk[w].pc = "history"
    /\ sess' = [sess EXCEPT
                  ![wk[w].sid].conversation_history =
                      Append(@, [role |-> "assistant",
                                 content |-> strip(wk[w].loc.response_text)])]
    /\ wk' = [wk EXCEPT ![w].pc = "setdone"]
    /\ UNCHANGED <<now, envVars, chat_replies, mgrVars, sessions, procs, chanVars, pollVars, apprVars,
                   request_files>>

\* chat_routes.py line 123: response_buffers[response_id]['done'] = True
WDone(w) ==
    /\ wk[w].pc = "setdone"
    /\ IF w \in response_buffers
       THEN /\ buf' = [buf EXCEPT ![w].done = TRUE, ![w].version = @ + 1]
            /\ wk' = [wk EXCEPT ![w].pc = "finished"]
       ELSE /\ wk' = [wk EXCEPT ![w].pc = "crashed"]
            /\ UNCHANGED buf
    /\ UNCHANGED <<now, envVars, chat_replies, mgrVars, sessVars, procs, response_buffers, pollVars,
                   apprVars, request_files>>

\* the steps of a thread that need neither the clock nor a blank line
WorkerSteps(w) ==
    \/ WStart(w)
    \/ WSpawn(w)
    \/ WLineExited(w)
    \/ WLineDecode(w)
    \/ WEof(w)
    \/ WExitStatus(w)
    \/ WWaitKill(w)
    \/ WHistory(w)
    \/ WDone(w)

Worker(w) ==
    \/ WorkerSteps(w)
    \/ WLineIdle(w)
    \/ WLineBlank(w)

Child(p) ==
    \/ ChildWrite(p)
    \/ \E rc \in ExitCodes : ChildExit(p, rc)

----------------------------------------------------------------------------
(* poll_response: GET /api/chat/poll/<response_id>.  The handler fetches   *)
(* the buffer dict once and then reads it field by field; the threads of   *)
(* collect_response run in between.                                        *)

\* chunks[offset:] of Python
PySlice(chunks, offset) ==
    LET start == IF offset >= 0 THEN offset
                 ELSE IF Len(chunks) + offset > 0 THEN Len(chunks) + offset
                 ELSE 0
    IN SubSeq(chunks, start + 1, Len(chunks))

\* the entry written for an approval request file
FileEntry(f) ==
    [shape |-> "dict", type |-> "approval_request", content |-> NoText,
     approval_id |-> f.approval_id]

\* lines 158-169 for one file: any(...) raises on an entry that is not a
\* dict before it finds a match, and the handler logs and goes on
Inject(b, f) ==
    LET hits == {k \in DOMAIN b.chunks :
                    b.chunks[k].shape = "dict"
                    /\ b.chunks[k].approval_id = f.approval_id}
        bad == {k \in DOMAIN b.chunks : b.chunks[k].shape # "dict"}
    IN IF \E k \in bad : \A h \in hits : k < h
       THEN b
       ELSE IF hits # {}
       THEN b
       ELSE [b EXCEPT !.chunks = Append(@, FileEntry(f)), !.version = @ + 1]

RECURSIVE InjectAll(_, _)
InjectAll(b, fs) ==
    IF fs = {} THEN b
    ELSE LET f == CHOOSE x \in fs : TRUE IN InjectAll(Inject(b, f), fs \ {f})

ShouldDiscard_WhenDone(b, offset) == b.done

ShouldDiscard_WhenConsumed(b, offset) == offset >= Len(b.chunks)

\* line 186: the test that frees the buffer
ShouldDiscard(b, offset) == b.done /\ offset >= Len(b.chunks)

\* the browser that follows response 1: it appends the chunks of every
\* response to what it has and polls again with the offset of the response
ClientAfter(tracked, status, chunks, roffset, done) ==
    IF ~tracked THEN client
    ELSE IF status = 404 THEN [client EXCEPT !.notfound = TRUE]
    ELSE [client EXCEPT !.received = @ \o chunks, !.offset = roffset,
                        !.done = done]

\* lines 148-149: unknown response id
PollNotFound(rid, offset, tracked) ==
    /\ poll.pc = "idle"
    /\ poll.served < MaxPolls
    /\ rid \notin response_buffers
    /\ poll' = [poll EXCEPT !.served = @ + 1]
    /\ prev_poll' = [NoPollYet EXCEPT !.rid = rid, !.offset = offset,
                                      !.status = 404,
                                      !.repeat = Repeats(rid, offset),
                                      !.pv0 = prev_poll.v0]
    /\ client' = ClientAfter(tracked, 404, <<>>, 0, FALSE)
    /\ UNCHANGED <<now, envVars, chat_replies, mgrVars, sessVars, procs, chanVars, wk, apprVars,
                   request_files>>

\* lines 151-175: fetch the buffer, inject approval files, slice
PollBegin(rid, offset, tracked) ==
    /\ poll.pc = "idle"
    /\ poll.served < MaxPolls
    /\ rid \in response_buffers
    /\ LET fs == {f \in request_files : f.session_id = buf[rid].session_id}
           b == InjectAll(buf[rid], fs)
       IN /\ buf' = [buf EXCEPT ![rid] = b]
          /\ poll' = [poll EXCEPT !.pc = "len", !.rid = rid, !.offset = offset,
                                  !.new_chunks = PySlice(b.chunks, offset),
                                  !.v0 = b.version, !.tracked = tracked]
    /\ UNCHANGED <<now, envVars, chat_replies, mgrVars, sessVars, procs, response_buffers, wk, client,
                   prev_poll, apprVars, request_files>>

\* line 179: 'offset': len(buffer['chunks'])
PollLen ==
    /\ poll.pc = "len"
    /\ poll' = [poll EXCEPT !.pc = "done", !.roffset = Len(buf[poll.rid].chunks)]
    /\ UNCHANGED <<now, envVars, chat_replies, mgrVars, sessVars, procs, chanVars, wk, client,
                   prev_poll, apprVars, request_files>>

\* lines 180-181: 'done' and 'error'
PollDone ==
    /\ poll.pc = "done"
    /\ poll' = [poll EXCEPT !.pc = "cleanup", !.rdone = buf[poll.rid].done,
                            !.rerror = buf[poll.rid].error]
    /\ UNCHANGED <<now, envVars, chat_replies, mgrVars, sessVars, procs, chanVars, wk, client,
                   prev_poll, apprVars, request_files>>

\* lines 185-189: free the buffer if done and consumed, then respond
PollCleanup ==
    /\ poll.pc = "cleanup"
    /\ response_buffers' =
          IF ShouldDiscard(buf[poll.rid], poll.offset)
          THEN response_buffers \ {poll.rid}
          ELSE response_buffers
    /\ poll' = [poll EXCEPT !.pc = "idle", !.served = @ + 1]
    /\ prev_poll' =
          [rid |-> poll.rid, offset |-> poll.offset, status |-> 200,
           chunks |-> poll.new_chunks, roffset |-> poll.roffset,
           done |-> poll.rdone, error |-> poll.rerror,
           v0 |-> poll.v0, v1 |-> buf[poll.rid].version,
           repeat |-> Repeats(poll.rid, poll.offset), pv0 |-> prev_poll.v0]
    /\ client' = ClientAfter(poll.tracked, 200, poll.new_chunks, poll.roffset,
                             poll.rdone)
    /\ UNCHANGED <<now, envVars, chat_replies, mgrVars, sessVars, procs, buf, wk, apprVars,
                   request_files>>

\* some process leaves an approval request file for a session in /tmp
WriteRequestFile(sid, aid) ==
    /\ request_files = {}
    /\ request_files' = {[session_id |-> sid, approval_id |-> aid]}
    /\ UNCHANGED <<now, envVars, chat_replies, mgrVars, sessVars, procs, chanVars, wk, pollVars,
                   apprVars>>

Offsets == -1 .. MaxOffset

\* a poll request with any offset and any response id that chat_message has
\* returned, or one it never returned (0)
AnyPoll ==
    \/ \E rid \in {0} \cup DOMAIN buf, offset \in Offsets :
          PollNotFound(rid, offset, FALSE)
    \/ \E rid \in DOMAIN buf, offset \in Offsets : PollBegin(rid, offset, FALSE)

\* the next poll request of the browser that follows response 1
ClientPoll ==
    /\ Len(buf) >= 1
    /\ ~client.notfound
    /\ \/ PollNotFound(1, client.offset, TRUE)
       \/ PollBegin(1, client.offset, TRUE)

PollSteps ==
    \/ PollLen
    \/ PollDone
    \/ PollCleanup

----------------------------------------------------------------------------
(* ClaudeSession.stop_current_response.  The caller holds the session      *)
(* object; self.current_process is read again at every use.                *)

CurrentProcess(c) == sess[stp[c].sid].current_process

\* Popen.send_signal(SIGTERM): nothing is sent to a child that has exited
Signalled(pr, rid) ==
    IF pr.state = "running"
    THEN [pr EXCEPT !.signalled = TRUE,
                    !.stopped_for = IF rid # 0 THEN rid ELSE @]
    ELSE pr

\* the child ends on the SIGTERM it was sent
ChildTerm(p) ==
    /\ Running(p)
    /\ procs[p].signalled
    /\ procs' = [procs EXCEPT ![p].state = "exited",
                              ![p].returncode = RC_TERMINATED]
    /\ UNCHANGED <<now, envVars, chat_replies, mgrVars, sessVars, chanVars, wk, pollVars,
                   apprVars, request_files>>

\* line 650: is there a process, and is it still running
SCheck(c) ==
    /\ stp[c].pc = "check"
    /\ stp' = [stp EXCEPT
                 ![c].pc = IF CurrentProcess(c) # 0 /\ Running(CurrentProcess(c))
                           THEN "signal" ELSE "ret",
                 ![c].result = FALSE]
    /\ UNCHANGED <<now, envVars, chat_replies, sweep, sessVars, procs, chanVars, wk, pollVars,
                   apprVars, request_files>>

\* line 655: send_signal(signal.SIGTERM)
SSignal(c) ==
    /\ stp[c].pc = "signal"
    /\ procs' = [procs EXCEPT ![CurrentProcess(c)] = Signalled(@, stp[c].rid)]
    /\ stp' = [stp EXCEPT ![c].pc = "wait"]
    /\ UNCHANGED <<now, envVars, chat_replies, sweep, sessVars, chanVars, wk, pollVars,
                   apprVars, request_files>>

\* line 658: wait(timeout=2) returns, the process has exited
SWaitExited(c) ==
    /\ stp[c].pc = "wait"
    /\ ~Running(CurrentProcess(c))
    /\ stp' = [stp EXCEPT ![c].pc = "ret", ![c].result = TRUE]
    /\ UNCHANGED <<now, envVars, chat_replies, sweep, sessVars, procs, chanVars, wk, pollVars,
                   apprVars, request_files>>

\* lines 659-660: wait(timeout=2) raises TimeoutExpired
SWaitTimeout(c) ==
    /\ stp[c].pc = "wait"
    /\ Running(CurrentProcess(c))
    /\ stp' = [stp EXCEPT ![c].pc = "kill"]
    /\ UNCHANGED <<now, envVars, chat_replies, sweep, sessVars, procs, chanVars, wk, pollVars,
                   apprVars, request_files>>

\* lines 662-665: kill(), wait(), return True
SKill(c) ==
    /\ stp[c].pc = "kill"
    /\ procs' = [procs EXCEPT ![CurrentProcess(c)] =
                    IF @.state = "running"
                    THEN [Killed(@, c) EXCEPT
                            !.stopped_for = IF stp[c].rid # 0 THEN stp[c].rid
                                            ELSE @]
                    ELSE @]
    /\ stp' = [stp EXCEPT ![c].pc = "ret", ![c].result = TRUE]
    /\ UNCHANGED <<now, envVars, chat_replies, sweep, sessVars, chanVars, wk, pollVars,
                   apprVars, request_files>>

stop_current_response(c) ==
    \/ SCheck(c)
    \/ SSignal(c)
    \/ SWaitExited(c)
    \/ SWaitTimeout(c)
    \/ SKill(c)

----------------------------------------------------------------------------
(* stop_response: POST /api/chat/stop/<response_id> *)

StoppedEntry == BufferEntry(YText(StoppedText))

\* the child of the turn of response rid if it is running, else 0; the
\* request records it in child, which no step reads
RunningChild(rid) ==
    IF wk[rid].proc # 0 /\ Running(wk[rid].proc) THEN wk[rid].proc ELSE 0

\* lines 202-214: the buffer, its session, the session object
StopBegin(rid) ==
    /\ stp["stop"].pc = "idle"
    /\ stp["stop"].calls < MaxStops
    /\ stp' = [stp EXCEPT !["stop"] =
                 IF rid \notin response_buffers
                    \/ buf[rid].session_id \notin sessions
                 THEN [pc |-> "idle", sid |-> 0, rid |-> rid, child |-> 0,
                       result |-> FALSE, status |-> 404, calls |-> @.calls + 1]
                 ELSE [pc |-> "check", sid |-> buf[rid].session_id, rid |-> rid,
                       child |-> RunningChild(rid), result |-> FALSE,
                       status |-> 0, calls |-> @.calls + 1]]
    /\ UNCHANGED <<now, envVars, chat_replies, sweep, sessVars, procs, chanVars, wk, pollVars,
                   apprVars, request_files>>

\* lines 215-226: the stop chunk and done if a process was stopped
StopReturn ==
    /\ stp["stop"].pc = "ret"
    /\ buf' = IF stp["stop"].result
              THEN [buf EXCEPT ![stp["stop"].rid] =
                      [AppendChunk(@, StoppedEntry) EXCEPT !.done = TRUE]]
              ELSE buf
    /\ stp' = [stp EXCEPT !["stop"].pc = "idle",
                          !["stop"].status = IF stp["stop"].result THEN 200
                                             ELSE 400]
    /\ UNCHANGED <<now, envVars, chat_replies, sweep, sessVars, procs, response_buffers, wk,
                   pollVars, apprVars, request_files>>

stop_response ==
    \/ \E rid \in {0} \cup DOMAIN buf : StopBegin(rid)
    \/ stop_current_response("stop")
    \/ StopReturn

----------------------------------------------------------------------------
(* ClaudeSessionManager.destroy_session, called by the route               *)
(* DELETE /api/chat/session/<session_id> and by cleanup_idle_sessions       *)

\* line 740: self.sessions.pop(session_id, None), then session.stop()
Pop(c, sid) ==
    /\ sessions' = sessions \ {sid}
    /\ stp' = [stp EXCEPT ![c] =
                 IF sid \in sessions
                 THEN [pc |-> "check", sid |-> sid, rid |-> 0, child |-> 0,
                       result |-> FALSE, status |-> 0, calls |-> @.calls + 1]
                 ELSE [pc |-> "idle", sid |-> sid, rid |-> 0, child |-> 0,
                       result |-> FALSE, status |-> 200, calls |-> @.calls + 1]]

\* the route: the session leaves the registry
DestroyBegin(sid) ==
    /\ stp["destroy"].pc = "idle"
    /\ stp["destroy"].calls < MaxStops
    /\ Pop("destroy", sid)
    /\ UNCHANGED <<now, envVars, chat_replies, sweep, sess, procs, chanVars, wk, pollVars,
                   apprVars, request_files>>

\* lines 673-676 and 742-743: stop() has returned, and so does the caller
DestroyReturn(c) ==
    /\ stp[c].pc = "ret"
    /\ stp' = [stp EXCEPT ![c].pc = "idle", ![c].status = 200]
    /\ UNCHANGED <<now, envVars, chat_replies, sweep, sessVars, procs, chanVars, wk, pollVars,
                   apprVars, request_files>>

destroy_session ==
    \/ \E sid \in {0} \cup DOMAIN sess : DestroyBegin(sid)
    \/ stop_current_response("destroy")
    \/ DestroyReturn("destroy")

----------------------------------------------------------------------------
(* cleanup_idle_sessions and the thread that runs it *)

\* the thresholds cleanup_idle_sessions is called with: the one of
\* _cleanup_loop and a shorter one
MaxAges == {2 * cleanup_interval, max_age_seconds}

\* the ids of s in the order of the dict
RECURSIVE InOrder(_)
InOrder(S) ==
    IF S = {} THEN <<>>
    ELSE LET m == CHOOSE x \in S : \A y \in S : x <= y
         IN <<m>> \o InOrder(S \ {m})

IdleSessions_AtLeast(current_time, max_age) ==
    {sid \in sessions : current_time - sess[sid].last_activity >= max_age}

\* lines 756-762: the sessions idle for longer than max_age
IdleSessions(current_time, max_age) ==
    {sid \in sessions : current_time - sess[sid].last_activity > max_age}

\* lines 752-762: current_time and the list sessions_to_cleanup
SweepScan(max_age) ==
    /\ sweep.pc = "idle"
    /\ sweep.runs < MaxSweeps
    /\ sweep' = [sweep EXCEPT
                   !.pc = "destroy", !.current_time = now, !.max_age = max_age,
                   !.to_cleanup = InOrder(IdleSessions(now, max_age)),
                   !.marked = IdleSessions(now, max_age),
                   !.runs = @ + 1]
    /\ UNCHANGED <<now, envVars, chat_replies, stp, sessVars, procs, chanVars, wk, pollVars,
                   apprVars, request_files>>

\* lines 765-766: destroy_session for the next session of the list
SweepDestroy ==
    /\ sweep.pc = "destroy"
    /\ sweep.to_cleanup # <<>>
    /\ stp["sweep"].pc = "idle"
    /\ Pop("sweep", Head(sweep.to_cleanup))
    /\ sweep' = [sweep EXCEPT !.to_cleanup = Tail(@)]
    /\ UNCHANGED <<now, envVars, chat_replies, sess, procs, chanVars, wk, pollVars,
                   apprVars, request_files>>

\* lines 768-772: the list is done, the run returns
SweepEnd ==
    /\ sweep.pc = "destroy"
    /\ sweep.to_cleanup = <<>>
    /\ stp["sweep"].pc = "idle"
    /\ sweep' = [sweep EXCEPT !.pc = "idle", !.marked = {}]
    /\ UNCHANGED <<now, envVars, chat_replies, stp, sessVars, procs, chanVars, wk, pollVars,
                   apprVars, request_files>>

\* _cleanup_loop, line 789: the thread sleeps cleanup_interval seconds
SweepWait ==
    /\ sweep.pc = "idle"
    /\ sweep.waits < MaxWaits
    /\ now' = now + cleanup_interval
    /\ sweep' = [sweep EXCEPT !.waits = @ + 1]
    /\ UNCHANGED <<envVars, chat_replies, stp, sessVars, procs, chanVars, wk, pollVars,
                   apprVars, request_files>>

cleanup_idle_sessions ==
    \/ \E max_age \in MaxAges : SweepScan(max_age)
    \/ SweepDestroy
    \/ stop_current_response("sweep")
    \/ DestroyReturn("sweep")
    \/ SweepEnd

----------------------------------------------------------------------------
(* The approval endpoints of chat_routes.py.  alog records every call of   *)
(* an endpoint with its response and the time; no step reads it.           *)

ApprSessions == {"db1", "db2"}
ApprActions == {"Update billing"}

Logged(e) == Append(alog, e)
CallsLeft == Len(alog) < MaxCalls

LogEntry(op, by, id, status) ==
    [op |-> op, by |-> by, id |-> id, status |-> status, approved |-> FALSE,
     session_id |-> NONE, listed |-> {}, at |-> now]

\* lines 709-750: POST /api/approval/request; the new id is a fresh uuid4
create_approval_request(session_id, action, by) ==
    IF session_id = NONE \/ action = NONE
    THEN /\ alog' = Logged(LogEntry("create", by, 0, "400"))
         /\ UNCHANGED <<pending_approvals, appr>>
    ELSE /\ appr' = Append(appr, [session_id |-> session_id, action |-> action,
                                  status |-> "pending", result |-> NONE])
         /\ pending_approvals' = pending_approvals \cup {Len(appr) + 1}
         /\ alog' = Logged(LogEntry("create", by, Len(appr) + 1, "pending"))

\* the response of GET /api/approval/poll/<approval_id>, lines 757-765
PollApprovalStatus(id) ==
    IF id \notin pending_approvals THEN "404" ELSE appr[id].status

\* lines 753-771: GET /api/approval/poll/<approval_id>
poll_approval(id, by) ==
    /\ alog' = Logged(LogEntry("poll", by, id, PollApprovalStatus(id)))
    /\ pending_approvals' =
          IF id \in pending_approvals /\ appr[id].status \in {"approved", "denied"}
          THEN pending_approvals \ {id}
          ELSE pending_approvals
    /\ UNCHANGED appr

\* lines 777-786: the ids of the entries get_pending_approvals returns
PendingOf(session_id) ==
    {id \in pending_approvals :
        appr[id].session_id = session_id /\ appr[id].status = "pending"}

\* lines 774-788: GET /api/approval/pending/<session_id>
get_pending_approvals(session_id) ==
    /\ alog' = Logged([LogEntry("pending", "browser", 0, "200")
                          EXCEPT !.session_id = session_id,
                                 !.listed = PendingOf(session_id)])
    /\ UNCHANGED <<pending_approvals, appr>>

\* lines 791-820: POST /api/approval/respond/<approval_id>
respond_to_approval(id, approved) ==
    /\ response_files' =
          {f \in response_files : f.approval_id # id}
          \cup {[approval_id |-> id, approved |-> approved]}
    /\ alog' = Logged([LogEntry("respond", "human", id, "200")
                          EXCEPT !.approved = approved])
    /\ UNCHANGED <<pending_approvals, appr>>

\* a caller of the endpoint other than the tool creates a request
CreateApproval(session_id, action) ==
    /\ CallsLeft
    /\ Len(appr) < MaxApprovals
    /\ create_approval_request(session_id, action, "api")
    /\ UNCHANGED <<now, envVars, chat_replies, mgrVars, sessVars, procs, chanVars, wk, pollVars,
                   response_files, tool, request_files>>

\* a caller of the endpoint other than the tool polls an id
PollApproval(id) ==
    /\ CallsLeft
    /\ poll_approval(id, "api")
    /\ UNCHANGED <<now, envVars, chat_replies, mgrVars, sessVars, procs, chanVars, wk, pollVars,
                   response_files, tool, request_files>>

\* the browser asks for the pending approvals of a session
GetPending(session_id) ==
    /\ CallsLeft
    /\ get_pending_approvals(session_id)
    /\ UNCHANGED <<now, envVars, chat_replies, mgrVars, sessVars, procs, chanVars, wk, pollVars,
                   response_files, tool, request_files>>

\* the human answers the approval dialog
RespondApproval(id, approved) ==
    /\ CallsLeft
    /\ respond_to_approval(id, approved)
    /\ UNCHANGED <<now, envVars, chat_replies, mgrVars, sessVars, procs, chanVars, wk, pollVars,
                   tool, request_files>>

----------------------------------------------------------------------------
(* approval_helper.request_approval, run by a tool in its own process *)

\* lines 34-90: session id from the environment, service token, creation
ToolBegin(env_session_id, token_ok) ==
    /\ tool.pc = "init"
    /\ IF env_session_id = NONE \/ ~token_ok
       THEN /\ tool' = [tool EXCEPT !.pc = "returned", !.result = FALSE]
            /\ UNCHANGED <<pending_approvals, appr, alog>>
       ELSE /\ CallsLeft
            /\ Len(appr) < MaxApprovals
            /\ create_approval_request(env_session_id, "Update billing", "tool")
            /\ tool' = [tool EXCEPT !.pc = "poll", !.approval_id = Len(appr) + 1,
                                    !.start_time = now]
    /\ UNCHANGED <<now, envVars, chat_replies, mgrVars, sessVars, procs, chanVars, wk, pollVars,
                   response_files, request_files>>

\* lines 94-121: one round of the poll loop
ToolPoll ==
    /\ tool.pc = "poll"
    /\ now - tool.start_time < approval_timeout
    /\ CallsLeft
    /\ poll_approval(tool.approval_id, "tool")
    /\ LET status == PollApprovalStatus(tool.approval_id) IN
       tool' = IF status = "404"
               THEN [tool EXCEPT !.pc = "returned", !.result = FALSE]
               ELSE IF status = "approved"
               THEN [tool EXCEPT !.pc = "returned", !.result = TRUE]
               ELSE IF status = "denied"
               THEN [tool EXCEPT !.pc = "returned", !.result = FALSE]
               ELSE tool
    /\ UNCHANGED <<now, envVars, chat_replies, mgrVars, sessVars, procs, chanVars, wk, pollVars,
                   response_files, request_files>>

ToolTimeout_Approves ==
    /\ tool.pc = "poll"
    /\ now - tool.start_time >= approval_timeout
    /\ tool' = [tool EXCEPT !.pc = "returned", !.result = TRUE]
    /\ UNCHANGED <<now, envVars, chat_replies, mgrVars, sessVars, procs, chanVars, wk, pollVars,
                   pending_approvals, appr, response_files, alog, request_files>>

\* lines 123-125: the loop condition fails
ToolTimeout ==
    /\ tool.pc = "poll"
    /\ now - tool.start_time >= approval_timeout
    /\ tool' = [tool EXCEPT !.pc = "returned", !.result = FALSE]
    /\ UNCHANGED <<now, envVars, chat_replies, mgrVars, sessVars, procs, chanVars, wk, pollVars,
                   pending_approvals, appr, response_files, alog, request_files>>

----------------------------------------------------------------------------
(* One turn of one session, every child output of Scripts, with the clock *)

InitInv ==
    /\ InitCommon
    /\ claude_bin \in BOOLEAN
    /\ child_output \in Scripts

NextInv ==
    \/ \E m \in Messages : Len(wk) = 0 /\ chat_message(0, m)
    \/ \E w \in DOMAIN wk : Worker(w)
    \/ \E p \in DOMAIN procs : Child(p)
    \/ (\E w \in DOMAIN wk : wk[w].pc = "read") /\ Tick

SpecInv == InitInv /\ [][NextInv]_vars

\* the thread of collect_response is scheduled as long as it can take a
\* step; the child is free to write, to exit or to do neither
SpecInvFair == SpecInv /\ WF_vars(\E w \in DOMAIN wk : Worker(w))

----------------------------------------------------------------------------
(* One turn and its polls *)

InitChan ==
    /\ InitCommon
    /\ claude_bin = TRUE
    /\ child_output \in ShortScripts

NextChan ==
    \/ \E m \in Messages : Len(wk) = 0 /\ chat_message(0, m)
    \/ \E w \in DOMAIN wk : WorkerSteps(w)
    \/ \E p \in DOMAIN procs : Child(p)
    \/ ClientPoll
    \/ PollSteps
    \/ \E sid \in DOMAIN sess : WriteRequestFile(sid, "a1")

SpecChan == InitChan /\ [][NextChan]_vars

----------------------------------------------------------------------------
(* One turn and polls with arbitrary response ids and offsets *)

NextPoll ==
    \/ \E m \in Messages : Len(wk) = 0 /\ chat_message(0, m)
    \/ \E w \in DOMAIN wk : WorkerSteps(w)
    \/ \E p \in DOMAIN procs : Child(p)
    \/ AnyPoll
    \/ PollSteps
    \/ \E sid \in DOMAIN sess : WriteRequestFile(sid, "a1")

SpecPoll == InitChan /\ [][NextPoll]_vars

----------------------------------------------------------------------------
(* Several turns, on a new session or on one that chat_message returned *)

InitSess ==
    /\ InitCommon
    /\ claude_bin = TRUE
    /\ child_output = <<TextDelta(<<"Hel">>), Result>>

NextSess ==
    \/ \E sid \in {0} \cup DOMAIN sess, m \in Messages : chat_message(sid, m)
    \/ \E w \in DOMAIN wk : WorkerSteps(w)
    \/ \E p \in DOMAIN procs : Child(p)

SpecSess == InitSess /\ [][NextSess]_vars

----------------------------------------------------------------------------
(* The approval endpoints, one tool waiting for approval, and the human *)

InitAppr ==
    /\ InitCommon
    /\ claude_bin = TRUE
    /\ child_output = <<>>

NextAppr ==
    \/ \E sid \in ApprSessions \cup {NONE}, token_ok \in BOOLEAN :
          ToolBegin(sid, token_ok)
    \/ ToolPoll
    \/ ToolTimeout
    \/ \E sid \in ApprSessions \cup {NONE}, a \in ApprActions \cup {NONE} :
          CreateApproval(sid, a)
    \/ \E id \in {0} \cup DOMAIN appr : PollApproval(id)
    \/ \E id \in {0} \cup DOMAIN appr, approved \in BOOLEAN :
          RespondApproval(id, approved)
    \/ \E sid \in ApprSessions : GetPending(sid)
    \/ tool.pc = "poll" /\ Tick

SpecAppr == InitAppr /\ [][NextAppr]_vars

----------------------------------------------------------------------------
(* Sessions, their turns and the cleanup thread *)

InitSweep ==
    /\ InitCommon
    /\ claude_bin = TRUE
    /\ child_output = <<Result>>

\* no turn is in progress
Quiet == \A w \in DOMAIN wk : wk[w].pc \in {"finished", "crashed"}

NextSweep ==
    \/ \E sid \in {0} \cup DOMAIN sess, m \in Messages :
          Quiet /\ chat_message(sid, m)
    \/ \E w \in DOMAIN wk : WorkerSteps(w) \/ WLineIdle(w)
    \/ \E p \in DOMAIN procs : ChildWrite(p) \/ ChildExit(p, 0) \/ ChildTerm(p)
    \/ cleanup_idle_sessions
    \/ SweepWait

SpecSweep == InitSweep /\ [][NextSweep]_vars

----------------------------------------------------------------------------
(* Sessions, their turns and the destroy route *)

NextDestroy ==
    \/ \E sid \in {0} \cup DOMAIN sess, m \in Messages : chat_message(sid, m)
    \/ \E w \in DOMAIN wk : WorkerSteps(w)
    \/ \E p \in DOMAIN procs : Child(p) \/ ChildTerm(p)
    \/ destroy_session

SpecDestroy == InitSweep /\ [][NextDestroy]_vars

----------------------------------------------------------------------------
(* One turn, its polls, and a tool of the child that asks for approval *)

\* lines 78-121: the id of the database row of the session, which the
\* child and its tools find in BRAINHAIR_SESSION_ID
db_session_id(sid) == IF sid = 1 THEN "db1" ELSE "db2"

\* a tool that the running child of a session has started
ChildTool ==
    \E p \in DOMAIN procs :
        /\ Running(p)
        /\ ToolBegin(db_session_id(procs[p].sid), TRUE)

NextTool ==
    \/ \E m \in Messages : Len(wk) = 0 /\ chat_message(0, m)
    \/ \E w \in DOMAIN wk : WorkerSteps(w)
    \/ \E p \in DOMAIN procs : Child(p)
    \/ ChildTool
    \/ ToolPoll
    \/ \E id \in DOMAIN appr, approved \in BOOLEAN : RespondApproval(id, approved)
    \/ ClientPoll
    \/ PollSteps

SpecTool == InitChan /\ [][NextTool]_vars

----------------------------------------------------------------------------
(* Turns on one session or two, and a stop request *)

NextStop ==
    \/ \E sid \in {0} \cup DOMAIN sess, m \in Messages : chat_message(sid, m)
    \/ \E w \in DOMAIN wk : WorkerSteps(w)
    \/ \E p \in DOMAIN procs : Child(p) \/ ChildTerm(p)
    \/ stop_response

SpecStop == InitSess /\ [][NextStop]_vars

----------------------------------------------------------------------------
(* One turn, its polls and a stop request *)

NextCancel ==
    \/ \E m \in Messages : Len(wk) = 0 /\ chat_message(0, m)
    \/ \E w \in DOMAIN wk : WorkerSteps(w)
    \/ \E p \in DOMAIN procs : Child(p) \/ ChildTerm(p)
    \/ stop_response
    \/ ClientPoll
    \/ PollSteps

SpecCancel == InitSess /\ [][NextCancel]_vars

----------------------------------------------------------------------------
(* chat_message with every kind of request *)

\* a session id that create_session never returned
NoSuchSession == -1

NextTurn ==
    \/ \E sid \in {0, NoSuchSession} \cup DOMAIN sess,
          m \in Messages \cup {<<>>} : chat_message(sid, m)
    \/ \E w \in DOMAIN wk : WorkerSteps(w)
    \/ \E p \in DOMAIN procs : Child(p)

SpecTurn == InitSweep /\ [][NextTurn]_vars

----------------------------------------------------------------------------
(* Properties of the sessions (SpecSess) *)

LiveChildren(sid) ==
    {p \in DOMAIN procs : procs[p].sid = sid /\ Running(p)}

\* C1: a Session never has two live child processes, whatever the
\* interleaving of the chat_message requests on it.
C1_AtMostOneLiveChild ==
    \A sid \in DOMAIN sess : Cardinality(LiveChildren(sid)) <= 1

----------------------------------------------------------------------------
(* Properties of one Invocation (SpecInv) *)

Last(q) == q[Len(q)]
Lines(w) == [i \in DOMAIN wk[w].decoded |-> wk[w].decoded[i].l]
ReadingEnded(w) == wk[w].why \in {"terminal", "eof", "exited", "idle"}

\* a decoded message_stop that found the stop reason tool_use remembered
KeptStop(d) ==
    d.l.parse = "object" /\ EventType(d.l) = "message_stop" /\ d.lsr = "tool_use"

\* a decoded terminal event: a result, or a message_stop with another reason
IsTerminalEntry(d) ==
    /\ d.l.parse = "object"
    /\ d.ctl = "break"
    /\ \/ EventType(d.l) = "result"
       \/ EventType(d.l) = "message_stop" /\ d.lsr # "tool_use"

\* C2: a message_stop decoded while the remembered stop reason is tool_use
\* does not end reading: the reader goes on with the following lines, and
\* reading ends only at a later terminal event or at end of output.
C2_ToolUseStopKeepsReading ==
    \A w \in DOMAIN wk : \A i \in DOMAIN wk[w].decoded :
        KeptStop(wk[w].decoded[i]) =>
            /\ wk[w].decoded[i].ctl = "continue"
            /\ \/ wk[w].pc = "read"
               \/ /\ wk[w].why = "terminal"
                  /\ i < Len(wk[w].decoded)
                  /\ IsTerminalEntry(Last(wk[w].decoded))
               \/ wk[w].why = "eof"

IsToolInvocation(e, n) ==
    e.shape = "dict" /\ \E k \in DOMAIN e.content : e.content[k] = n
IsTextChunk(e, t) == e.shape = "dict" /\ e.type = "chunk" /\ e.content = t

\* C3: when the records of ToolScript have all been decoded and the turn is
\* complete, the channel holds a ToolInvocation naming Bash, later the text
\* "result text", and is done.
C3_ToolExampleUpdates ==
    \A w \in DOMAIN wk :
        (wk[w].pc = "finished" /\ Lines(w) = ToolScript) =>
            /\ buf[w].done
            /\ \E i, j \in DOMAIN buf[w].chunks :
                  /\ i < j
                  /\ IsToolInvocation(buf[w].chunks[i], "Bash")
                  /\ IsTextChunk(buf[w].chunks[j], <<"result text">>)

IsTextDelta(l) ==
    /\ l.parse = "object"
    /\ l.wrap <= 1
    /\ l.type = "content_block_delta"
    /\ l.delta = "object"
    /\ l.dtype = "text_delta"

\* the records C4 allows between the text deltas
IsFiller(l) ==
    /\ l.parse = "object"
    /\ l.wrap <= 1
    /\ \/ l.type \in {"content_block_start", "content_block_stop"}
       \/ l.type = "content_block_delta" /\ ~IsTextDelta(l)

RECURSIVE TextsOf(_)
TextsOf(q) ==
    IF q = <<>> THEN <<>>
    ELSE IF IsTextDelta(Head(q))
    THEN <<IF Head(q).text = NoText THEN <<>> ELSE Head(q).text>> \o TextsOf(Tail(q))
    ELSE TextsOf(Tail(q))

RECURSIVE YieldedTexts(_)
YieldedTexts(ys) ==
    IF ys = <<>> THEN <<>>
    ELSE IF Head(ys).kind = "text"
    THEN <<Head(ys).content>> \o YieldedTexts(Tail(ys))
    ELSE YieldedTexts(Tail(ys))

RECURSIVE Concat(_)
Concat(ts) == IF ts = <<>> THEN <<>> ELSE Head(ts) \o Concat(Tail(ts))

\* C4: for a child that writes text deltas t1..tn interleaved with tool-use
\* blocks, input-json deltas and deltas without payload, and exits with
\* status 0 without an idle gap, the Invocation yields exactly t1..tn as its
\* text chunks, in order, and its response text is t1 + ... + tn.
C4_TextReconstruction ==
    \A w \in DOMAIN wk :
        ( /\ wk[w].pc \in {"history", "setdone", "finished"}
          /\ wk[w].why \in {"eof", "exited"}
          /\ procs[wk[w].proc].returncode = 0
          /\ \A k \in DOMAIN child_output :
                IsTextDelta(child_output[k]) \/ IsFiller(child_output[k]) )
        => /\ YieldedTexts(wk[w].yielded) = TextsOf(child_output)
           /\ wk[w].loc.response_text = Concat(TextsOf(child_output))

IsErrorEntry(e) ==
    /\ e.shape = "dict"
    /\ e.type = "chunk"
    /\ \E k \in DOMAIN e.content :
          e.content[k] \in {"[Claude Code appears to have hung - terminated]",
                            "[Error: Claude Code exited with code ",
                            "[Error: Internal server error - "}

ErrorCount(chunks) == Cardinality({k \in DOMAIN chunks : IsErrorEntry(chunks[k])})

\* C8: when the read loop ended because the child was silent for longer
\* than the idle budget, the child has been killed and, once the turn is
\* complete, the channel is done and holds exactly one Error update.
C8_IdleKillOneError ==
    \A w \in DOMAIN wk :
        wk[w].why = "idle" =>
            /\ ~Running(wk[w].proc)
            /\ wk[w].pc = "finished" =>
                  buf[w].done /\ ErrorCount(buf[w].chunks) = 1

----------------------------------------------------------------------------
(* Properties of the response channel *)

\* C5: the browser that follows response 1 from offset 0 with the offsets it
\* is given holds exactly the first `offset` entries of the channel: every
\* Update once, in order, none skipped.
C5_PollerReceivesAll ==
    Len(buf) >= 1 =>
        client.received = SubSeq(buf[1].chunks, 1, client.offset)

SameResponse(a, b) ==
    /\ a.status = b.status
    /\ a.chunks = b.chunks
    /\ a.roffset = b.roffset
    /\ a.done = b.done
    /\ a.error = b.error

\* the step returns the response of a poll that repeats the request of the
\* poll served before it
RepeatedPollReturns ==
    /\ poll'.served = poll.served + 1
    /\ prev_poll'.repeat

\* C6 as stated: two consecutive polls with the same id and offset, with
\* no write to the channel from the first's fetch of the buffer to the
\* second's return, return the same response in every channel state, also
\* when the channel is done and fully consumed.
C6_PollIdempotentAlways ==
    [][ ( /\ RepeatedPollReturns
          /\ prev_poll.status = 200 =>
                buf'[prev_poll.rid].version = prev_poll.v0 )
        => SameResponse(prev_poll, prev_poll') ]_vars

\* C6 amended: two consecutive polls with the same id and offset return the
\* same response if nothing wrote the channel from the first's fetch of the
\* buffer to the second's return and the first did not find the channel
\* done with every entry covered by the offset; not-found is repeated.
C6_PollIdempotent ==
    [][ ( /\ RepeatedPollReturns
          /\ prev_poll.status = 200 =>
                /\ buf'[prev_poll.rid].version = prev_poll.v0
                /\ ~(prev_poll.done /\ prev_poll.offset >= prev_poll.roffset) )
        => SameResponse(prev_poll, prev_poll') ]_vars

C6_Witness ==
    /\ prev_poll.repeat
    /\ prev_poll.status = 200
    /\ prev_poll.v1 = prev_poll.pv0
    /\ prev_poll.chunks # <<>>
    /\ prev_poll.done

\* C7: a buffer leaves response_buffers only in the last step of a poll of
\* its id, and only if it is done and the poll's offset covers every entry;
\* it never returns, and a poll of its id is answered not-found.
C7_DiscardOnlyWhenConsumed ==
    [][ /\ \A r \in response_buffers \ response_buffers' :
              /\ poll.pc = "cleanup"
              /\ poll.rid = r
              /\ buf[r].done
              /\ poll.offset >= Len(buf[r].chunks)
        /\ \A r \in DOMAIN buf \ response_buffers : r \notin response_buffers'
        /\ ( /\ poll'.served = poll.served + 1
             /\ prev_poll'.rid \in DOMAIN buf \ response_buffers )
           => prev_poll'.status = 404 ]_vars

C7_Witness ==
    /\ prev_poll.status = 404
    /\ prev_poll.rid \in DOMAIN buf
    /\ buf[prev_poll.rid].done

----------------------------------------------------------------------------
(* Properties of the approval flow (SpecAppr) *)

Created(id, i) ==
    \E k \in 1 .. i - 1 :
        alog[k].op = "create" /\ alog[k].id = id /\ alog[k].status = "pending"

\* the first answer to a request that was created and not yet polled away
FirstAnswer(i) ==
    /\ alog[i].op = "respond"
    /\ Created(alog[i].id, i)
    /\ \A k \in 1 .. i - 1 :
          alog[k].id = alog[i].id => alog[k].op # "respond"

PollsAfter(i) ==
    {j \in DOMAIN alog : j > i /\ alog[j].op = "poll" /\ alog[j].id = alog[i].id}

\* C9: after createApproval and respondApproval(approved=false), the next
\* pollApproval of the id returns denied and every later one not-found.
C9_DeniedObservedOnce ==
    \A i \in DOMAIN alog :
        (FirstAnswer(i) /\ ~alog[i].approved) =>
            \A j \in PollsAfter(i) :
                alog[j].status =
                    IF \A k \in PollsAfter(i) : j <= k THEN "denied" ELSE "404"

\* C10: once the human has approved the tool's pending request before the
\* tool's timeout, every later poll of the tool observes the approval and
\* request_approval returns True.
C10_ApprovalUnblocksTool ==
    \A i \in DOMAIN alog :
        ( /\ FirstAnswer(i)
          /\ alog[i].approved
          /\ tool.pc # "init"
          /\ alog[i].id = tool.approval_id
          /\ alog[i].at - tool.start_time < approval_timeout
          /\ \A k \in DOMAIN alog :
                alog[k].id = tool.approval_id =>
                    /\ alog[k].op = "poll" => alog[k].by = "tool"
                    /\ alog[k].op = "respond" => alog[k].approved )
        => /\ \A j \in PollsAfter(i) : alog[j].status = "approved"
           /\ tool.pc = "returned" => tool.result

----------------------------------------------------------------------------
(* Properties of the registry of sessions (SpecSweep, SpecDestroy) *)

\* C12: the step of the idle sweep that takes a Session out of the registry
\* never takes one that has a child process running.
C12_SweepSparesRunning ==
    [][ (sweep.pc = "destroy" /\ sweep'.to_cleanup # sweep.to_cleanup) =>
            \A sid \in sessions \ sessions' : LiveChildren(sid) = {} ]_vars

\* C13: a run of the idle sweep with threshold M marks exactly the Sessions
\* of the registry whose last activity is more than M before the run's
\* time, takes only marked Sessions out of the registry, has taken all of
\* them out when it ends, and a run that follows a finished run with the
\* same threshold at the same time marks nothing.
C13_SweepRemovesExactlyIdle ==
    [][ /\ (sweep.pc = "idle" /\ sweep'.pc = "destroy") =>
              /\ sweep'.marked =
                    {sid \in sessions :
                        sess[sid].last_activity < now - sweep'.max_age}
              /\ (sweep.runs > 0 /\ sweep.current_time = now
                  /\ sweep.max_age = sweep'.max_age) => sweep'.marked = {}
        /\ (sweep.pc = "destroy" /\ sweep'.to_cleanup # sweep.to_cleanup) =>
              sessions \ sessions' \subseteq sweep.marked
        /\ (sweep.pc = "destroy" /\ stp = stp' /\ sessions = sessions') =>
              \/ sweep' = sweep
              \/ sweep'.pc = "idle" /\ sweep.marked \cap sessions' = {}
      ]_vars

\* a run of the sweep is about to end that took one Session out and kept
\* another
C13_Witness ==
    /\ sweep.pc = "destroy"
    /\ sweep.to_cleanup = <<>>
    /\ stp["sweep"].pc = "idle"
    /\ sweep.marked # {}
    /\ sessions # {}
    /\ \A sid \in sessions : sweep.current_time - sess[sid].last_activity <= sweep.max_age

\* C18: once the destroy route has returned for Session S, S is not in the
\* registry and no child process of S is running.
C18_DestroyLeavesNoChild ==
    (stp["destroy"].pc = "idle" /\ stp["destroy"].calls > 0
     /\ stp["destroy"].sid \in DOMAIN sess) =>
        /\ stp["destroy"].sid \notin sessions
        /\ LiveChildren(stp["destroy"].sid) = {}

----------------------------------------------------------------------------
(* Properties of the approval requests of a tool (SpecTool) *)

\* the approval request that the tool has registered belongs to the session
\* of response rid
ToolAsked(rid) ==
    /\ tool.approval_id \in DOMAIN appr
    /\ appr[tool.approval_id].session_id = db_session_id(buf[rid].session_id)

\* C11: when a tool of the child has registered an approval request for the
\* session while the channel is active, the next poll of the channel finds an
\* approval request entry in the channel.
C11_PollShowsApprovalRequest ==
    [][ (/\ poll.pc = "idle" /\ poll'.pc = "len"
         /\ ~buf[poll'.rid].done
         /\ ToolAsked(poll'.rid)) =>
            \E k \in DOMAIN buf'[poll'.rid].chunks :
                /\ buf'[poll'.rid].chunks[k].shape = "dict"
                /\ buf'[poll'.rid].chunks[k].type = "approval_request" ]_vars

----------------------------------------------------------------------------
(* Properties of the end of a turn (SpecInvFair) *)

----------------------------------------------------------------------------
(* Properties of a cancelled turn (SpecCancel) *)

\* the assistant turns in the history of session sid
AssistantTurns(sid) ==
    {k \in DOMAIN sess[sid].conversation_history :
        sess[sid].conversation_history[k].role = "assistant"}

\* C15: once the thread of a turn whose child was spawned has ended, the
\* history of the session holds exactly one assistant turn, and its content
\* is the response text the turn accumulated (without surrounding blanks).
C15_OneAssistantTurn ==
    \A w \in DOMAIN wk :
        (wk[w].pc \in {"finished", "crashed"} /\ wk[w].proc # 0) =>
            /\ Cardinality(AssistantTurns(wk[w].sid)) = 1
            /\ \A k \in AssistantTurns(wk[w].sid) :
                  sess[wk[w].sid].conversation_history[k].content =
                      strip(wk[w].loc.response_text)

----------------------------------------------------------------------------
(* Properties of stop_response (SpecStop) *)

\* C16: a stop request made while the child of its turn is running kills
\* only that child and only after it was sent SIGTERM, and when the request
\* returns success that child has exited, and the channel is done and ends
\* with the chunk that says the response was stopped.
C16_StopGracefulThenExited ==
    [][ /\ \A p \in DOMAIN procs :
              (stp["stop"].child # 0 /\ procs'[p].killed_by = "stop"
                  /\ procs[p].killed_by # "stop") =>
                 (p = stp["stop"].child /\ procs[p].signalled)
        /\ (/\ stp["stop"].pc = "ret" /\ stp'["stop"].pc = "idle"
            /\ stp["stop"].result /\ stp["stop"].child # 0) =>
                 /\ ~Running(stp["stop"].child)
                 /\ buf'[stp["stop"].rid].done
                 /\ Last(buf'[stp["stop"].rid].chunks) = StoppedEntry ]_vars

\* C17: a stop request signals or kills no process but the child of the turn
\* that feeds its response id, and when that turn has no running child it
\* reports that nothing was stopped and changes no channel.
C17_StopOnlyOwnChild ==
    [][ /\ \A p \in DOMAIN procs :
              procs'[p].stopped_for # 0 => wk[procs'[p].stopped_for].proc = p
        /\ (/\ stp["stop"].pc = "ret" /\ stp'["stop"].pc = "idle"
            /\ wk[stp["stop"].rid].pc = "finished") =>
                 (~stp["stop"].result /\ buf' = buf) ]_vars

----------------------------------------------------------------------------
(* Properties of a turn whose child fails (SpecStop, SpecInv) *)

\* C19: when the child of a turn has exited with a status N other than 0
\* and the turn is complete, the channel holds exactly one error entry, the
\* one that names N, its error field is unset, it is done, and the session
\* is still in the registry for a later turn.
C19_NonZeroExitOneError ==
    \A w \in DOMAIN wk :
        (/\ wk[w].pc = "finished" /\ wk[w].proc # 0
         /\ procs[wk[w].proc].returncode # 0) =>
            /\ ErrorCount(buf[w].chunks) = 1
            /\ \E k \in DOMAIN buf[w].chunks :
                  buf[w].chunks[k] =
                      BufferEntry(YText(ExitErrorText(procs[wk[w].proc].returncode)))
            /\ buf[w].error = NONE
            /\ buf[w].done
            /\ wk[w].sid \in sessions

\* a turn ended by a child that exited with 1, and a later turn of the same
\* session that ran to its end
C19_Witness ==
    /\ Len(wk) = 2 /\ wk[1].pc = "finished" /\ wk[2].pc = "finished"
    /\ wk[2].sid = wk[1].sid
    /\ procs[wk[1].proc].returncode = 1
    /\ procs[wk[2].proc].returncode = 0
    /\ Len(sess[wk[1].sid].conversation_history) = 4
    /\ sess[wk[1].sid].conversation_history[2].role = "assistant"
    /\ buf[2].done /\ ErrorCount(buf[2].chunks) = 0

\* C20: when the claude binary cannot be located no child is ever spawned,
\* and from the moment the turn has looked for it the channel holds exactly
\* one entry, the error, nothing is added to it, and the channel is done when
\* the turn is complete.
C20_NoBinaryOneError ==
    ~claude_bin =>
        /\ procs = <<>>
        /\ \A w \in DOMAIN wk :
              wk[w].pc # "start" =>
                 /\ wk[w].proc = 0
                 /\ buf[w].chunks =
                       <<BufferEntry(YText(InternalErrorText("RuntimeError")))>>
                 /\ ErrorCount(buf[w].chunks) = 1
                 /\ buf[w].error = NONE
                 /\ buf[w].done <=> wk[w].pc = "finished"

C20_Witness ==
    /\ ~claude_bin
    /\ Len(wk) = 1 /\ wk[1].pc = "finished" /\ wk[1].why = "nobinary"
    /\ buf[1].done /\ Len(buf[1].chunks) = 1

----------------------------------------------------------------------------
(* Properties of the conversation history (SpecSess) *)

\* the turn that a step appends to the history of session sid
Appended(sid) == Last(sess'[sid].conversation_history)

\* the thread w appends the user turn of its message: it has not spawned yet
AppendsUserTurn(w, sid) ==
    /\ wk[w].sid = sid /\ wk[w].pc = "start" /\ wk[w].proc = 0
    /\ wk'[w].pc # "start"
    /\ Appended(sid) = [role |-> "user", content |-> wk[w].message]

\* the thread w appends its assistant turn: its reading has ended and its
\* user turn is in the history
AppendsAssistantTurn(w, sid) ==
    /\ wk[w].sid = sid /\ wk[w].pc = "history" /\ wk'[w].pc = "setdone"
    /\ ReadingEnded(w)
    /\ Appended(sid).role = "assistant"
    /\ \E k \in DOMAIN sess[sid].conversation_history :
          sess[sid].conversation_history[k] =
              [role |-> "user", content |-> wk[w].message]

\* C21: every step leaves the history of a session as it is or appends one
\* turn to it: the user turn of a thread that has not spawned its child, or
\* the assistant turn of a thread whose reading has ended and whose user turn
\* is in the history; and a child is spawned only by a thread that has
\* appended its user turn.
C21_HistoryAppendOnly ==
    [][ /\ \A sid \in DOMAIN sess :
              \/ sess'[sid].conversation_history = sess[sid].conversation_history
              \/ /\ Len(sess'[sid].conversation_history) =
                        Len(sess[sid].conversation_history) + 1
                 /\ SubSeq(sess'[sid].conversation_history, 1,
                           Len(sess[sid].conversation_history)) =
                        sess[sid].conversation_history
                 /\ \E w \in DOMAIN wk :
                       AppendsUserTurn(w, sid) \/ AppendsAssistantTurn(w, sid)
        /\ \A w \in DOMAIN wk :
              (wk[w].proc = 0 /\ wk'[w].proc # 0) =>
                 \E k \in DOMAIN sess[wk[w].sid].conversation_history :
                    sess[wk[w].sid].conversation_history[k] =
                        [role |-> "user", content |-> wk[w].message] ]_vars

\* two turns of one session in flight together, both complete
C21_Witness ==
    /\ Len(wk) = 2 /\ wk[1].sid = wk[2].sid
    /\ wk[1].pc = "finished" /\ wk[2].pc = "finished"
    /\ Len(sess[wk[1].sid].conversation_history) = 4
    /\ sess[wk[1].sid].conversation_history[2].role = "user"
    /\ sess[wk[1].sid].conversation_history[4].role = "assistant"

----------------------------------------------------------------------------
(* Properties of the approval requests (SpecAppr) *)

\* C22: a request is pending until respondApproval is first called for it,
\* and from then on its status is the decision of that first call: approved
\* or denied, never pending again, whatever a later call says.
C22_StatusDecidedOnce ==
    /\ \A id \in DOMAIN appr :
          (\A i \in DOMAIN alog : ~(alog[i].op = "respond" /\ alog[i].id = id)) =>
              appr[id].status = "pending"
    /\ \A i \in DOMAIN alog :
          FirstAnswer(i) =>
              appr[alog[i].id].status =
                  IF alog[i].approved THEN "approved" ELSE "denied"

C24_TimeoutRemovesRequest ==
    (/\ tool.pc = "returned" /\ tool.approval_id # 0
     /\ now - tool.start_time >= approval_timeout
     /\ \A j \in DOMAIN alog :
           (alog[j].by = "tool" /\ alog[j].op = "poll") => alog[j].status = "pending") =>
        /\ PollApprovalStatus(tool.approval_id) = "404"
        /\ tool.approval_id \notin PendingOf(appr[tool.approval_id].session_id)

\* the decision of the first respondApproval for request id, if there is one
Decisions(id) ==
    {alog[i].approved : i \in {k \in DOMAIN alog : FirstAnswer(k) /\ alog[k].id = id}}

\* C25: a poll of a request that is pending returns pending and changes
\* nothing; a poll of a request that has been approved or denied returns
\* that status and removes the entry; a poll of an id that is not there
\* reports not-found.
C25_PollFrame ==
    [][ (alog' # alog /\ Last(alog').op = "poll") =>
            /\ Last(alog').status = "pending" =>
                  (pending_approvals' = pending_approvals /\ appr' = appr)
            /\ Last(alog').id \notin pending_approvals =>
                  Last(alog').status = "404"
            /\ \A approved \in Decisions(Last(alog').id) :
                  Last(alog').id \in pending_approvals =>
                     /\ Last(alog').status =
                           IF approved THEN "approved" ELSE "denied"
                     /\ Last(alog').id \notin pending_approvals' ]_vars

\* C26: the pending approvals returned for session S are exactly the
\* requests of S that are pending, none of them has been answered by
\* respondApproval, and the call changes nothing.
C26_ListPendingExact ==
    [][ (alog' # alog /\ Last(alog').op = "pending") =>
            /\ Last(alog').listed =
                  {id \in pending_approvals :
                      /\ appr[id].session_id = Last(alog').session_id
                      /\ appr[id].status = "pending"}
            /\ \A id \in Last(alog').listed : Decisions(id) = {}
            /\ pending_approvals' = pending_approvals
            /\ appr' = appr
            /\ response_files' = response_files ]_vars

----------------------------------------------------------------------------
(* Properties of the decoder (SpecInv) *)

\* C27: a message_stop decoded while no tool_use stop reason is remembered
\* ends the read loop: it is the last line decoded; and a child that writes
\* the text deltas "Hel" and "lo" and a message_stop, without an idle gap,
\* gives a turn with the response text "Hello" and a channel that is done.
C27_MessageStopTerminal ==
    \A w \in DOMAIN wk :
        /\ \A i \in DOMAIN wk[w].decoded :
              (/\ wk[w].decoded[i].l.parse = "object"
               /\ EventType(wk[w].decoded[i].l) = "message_stop"
               /\ wk[w].decoded[i].lsr # "tool_use") =>
                  /\ wk[w].decoded[i].ctl = "break"
                  /\ i = Len(wk[w].decoded)
                  /\ wk[w].pc # "read"
        /\ (/\ child_output = <<TextDelta(<<"Hel">>), TextDelta(<<"lo">>), MessageStop>>
            /\ wk[w].pc = "finished"
            /\ wk[w].proc # 0
            /\ wk[w].why # "idle") =>
                  /\ wk[w].loc.response_text = <<"Hel", "lo">>
                  /\ buf[w].done

\* the types the if/elif chain of the decoder has a branch for
KnownTypes ==
    {"approval_request", "content_block_delta", "content_block_start",
     "assistant", "message_stop", "result", "system", "message_start", "user",
     "content_block_stop", "message_delta"}

\* a record without a type, with a type the decoder has no branch for, or
\* inside more than one envelope
IsUnknown(l) ==
    l.parse = "object" /\ (l.wrap >= 2 \/ l.type \notin KnownTypes)

\* C28: the step that decodes a record of unknown or missing type yields
\* nothing, leaves the response text and the channel as they are, and goes
\* on reading.
C28_UnknownIgnored ==
    [][ \A w \in DOMAIN wk :
            (/\ Len(wk'[w].decoded) = Len(wk[w].decoded) + 1
             /\ IsUnknown(Last(wk'[w].decoded).l)) =>
                /\ Last(wk'[w].decoded).ctl = "continue"
                /\ wk'[w].pc = "read"
                /\ wk'[w].loc = wk[w].loc
                /\ wk'[w].yielded = wk[w].yielded
                /\ buf' = buf ]_vars

\* a record of unknown type was decoded, and a text delta after it
C28_Witness ==
    \E w \in DOMAIN wk : \E i \in DOMAIN wk[w].decoded :
        /\ IsUnknown(wk[w].decoded[i].l)
        /\ i < Len(wk[w].decoded)
        /\ wk[w].loc.response_text = <<"lo">>
        /\ wk[w].pc = "finished"

\* C29: the step that decodes a line that is not a structured record yields
\* exactly one live message carrying the line, and goes on reading.
C29_UnparsedLineIsLiveStatus ==
    [][ \A w \in DOMAIN wk :
            (/\ Len(wk'[w].decoded) = Len(wk[w].decoded) + 1
             /\ Last(wk'[w].decoded).l.parse # "object") =>
                /\ Last(wk'[w].decoded).ctl = "continue"
                /\ wk'[w].pc = "read"
                /\ wk'[w].yielded =
                      Append(wk[w].yielded,
                             LiveMessage(strip(Last(wk'[w].decoded).l.raw))) ]_vars

\* C30: a turn whose child wrote a full assistant message with the text
\* "Hello" and a result, both decoded, and exited with status 0 has "Hello"
\* as its response text.
C30_AssistantFallback ==
    \A w \in DOMAIN wk :
        (/\ wk[w].pc = "finished" /\ Lines(w) = AssistantScript
         /\ procs[wk[w].proc].returncode = 0) =>
            wk[w].loc.response_text = <<"Hello">>

\* a decoded result record
IsResultEntry(d) == d.l.parse = "object" /\ EventType(d.l) = "result"

\* C31: a decoded result record ends the read loop whatever stop reason is
\* remembered: it is the last line decoded and the thread has left the loop;
\* and once a result is decoded the channel of the turn becomes done.
C31_ResultAlwaysTerminal ==
    /\ [](\A w \in DOMAIN wk : \A i \in DOMAIN wk[w].decoded :
            IsResultEntry(wk[w].decoded[i]) =>
                /\ wk[w].decoded[i].ctl = "break"
                /\ i = Len(wk[w].decoded)
                /\ wk[w].pc # "read")
    /\ (Len(wk) >= 1 /\ \E i \in DOMAIN wk[1].decoded :
                            IsResultEntry(wk[1].decoded[i]))
           ~> (Len(buf) >= 1 /\ buf[1].done)

\* a result was decoded while tool_use was remembered, and the turn is done
C31_Witness ==
    \E w \in DOMAIN wk :
        /\ wk[w].decoded # <<>>
        /\ IsResultEntry(Last(wk[w].decoded))
        /\ Last(wk[w].decoded).lsr = "tool_use"
        /\ wk[w].pc = "finished"
        /\ buf[w].done

\* C32: a step in which the read loop takes a non-blank line from the pipe,
\* with no idle timeout due, gives that line to the decoder: the line is
\* never dropped because the child has exited in the meantime.
C32_ReadLinesAreDecoded ==
    [][ \A w \in DOMAIN wk :
            (/\ HasLine(w)
             /\ ~IdleExceeded(w)
             /\ ~IsBlank(Head(procs[wk[w].proc].pipe))
             /\ procs'[wk[w].proc].pipe = Tail(procs[wk[w].proc].pipe)) =>
                /\ Len(wk'[w].decoded) = Len(wk[w].decoded) + 1
                /\ Last(wk'[w].decoded).l = Head(procs[wk[w].proc].pipe) ]_vars

\* a record that is an approval_request, bare or inside one envelope
IsApprovalRequest(l) ==
    l.parse = "object" /\ l.wrap <= 1 /\ l.type = "approval_request"

\* C33: the step that decodes an approval_request, bare or inside one
\* envelope, yields exactly that record, leaves the response text as it is
\* and goes on reading.
C33_ApprovalPassedThrough ==
    [][ \A w \in DOMAIN wk :
            (/\ Len(wk'[w].decoded) = Len(wk[w].decoded) + 1
             /\ IsApprovalRequest(Last(wk'[w].decoded).l)) =>
                /\ wk'[w].yielded =
                      Append(wk[w].yielded,
                             YDumps("approval_request", NoText,
                                    Last(wk'[w].decoded).l.approval_id))
                /\ wk'[w].loc = wk[w].loc
                /\ Last(wk'[w].decoded).ctl = "continue"
                /\ wk'[w].pc = "read" ]_vars

\* C34: the step that decodes a record inside one envelope does what the
\* decoder does for the inner record on its own (same yield, same locals,
\* same remembered stop reason, same verdict); the step that decodes a record
\* inside two envelopes yields nothing, changes nothing and goes on reading.
C34_EnvelopeTransparent ==
    [][ \A w \in DOMAIN wk :
            (/\ Len(wk'[w].decoded) = Len(wk[w].decoded) + 1
             /\ Last(wk'[w].decoded).l.parse = "object"
             /\ Last(wk'[w].decoded).l.wrap >= 1) =>
                LET l == Last(wk'[w].decoded).l
                    sid == wk[w].sid
                    inner == DecodeLine([l EXCEPT !.wrap = 0], wk[w].loc,
                                        sess[sid].lsr)
                    d == IF l.wrap = 1 THEN inner
                         ELSE Same(wk[w].loc, sess[sid].lsr)
                IN /\ wk'[w].yielded = wk[w].yielded \o d.yields
                   /\ wk'[w].loc = d.loc
                   /\ sess'[sid].lsr = d.lsr
                   /\ Last(wk'[w].decoded).ctl = d.ctl ]_vars

----------------------------------------------------------------------------
(* Properties of chat_message (SpecTurn) *)

\* C35: a chat_message answered with 200 adds exactly one channel, under a
\* response id no channel has or had, empty, not done, without error and
\* bound to the returned session id, and starts exactly one thread on that
\* session; when the named session is not in the registry the returned id is
\* that of a session created by the request, otherwise it is the named id
\* and no session is created; a chat_message with an empty message changes
\* neither the sessions nor the channels nor the threads.
C35_StartTurnCreatesOneChannel ==
    [][ Len(chat_replies') = Len(chat_replies) + 1 =>
          LET r == Last(chat_replies') IN
          IF r.message = <<>>
          THEN /\ r.status = 400
               /\ UNCHANGED <<sessions, sess, response_buffers, buf, wk, procs>>
          ELSE /\ r.status = 200
               /\ r.response_id \notin response_buffers
               /\ r.response_id \notin DOMAIN buf
               /\ response_buffers' = response_buffers \cup {r.response_id}
               /\ DOMAIN buf' = DOMAIN buf \cup {r.response_id}
               /\ \A b \in DOMAIN buf : buf'[b] = buf[b]
               /\ buf'[r.response_id].chunks = <<>>
               /\ buf'[r.response_id].done = FALSE
               /\ buf'[r.response_id].error = NONE
               /\ buf'[r.response_id].session_id = r.session_id
               /\ Len(wk') = Len(wk) + 1
               /\ \A w \in DOMAIN wk : wk'[w] = wk[w]
               /\ Last(wk').sid = r.session_id
               /\ Last(wk').pc = "start"
               /\ r.session_id \in sessions'
               /\ IF r.asked \in sessions
                  THEN r.session_id = r.asked /\ UNCHANGED <<sessions, sess>>
                  ELSE /\ r.session_id \notin DOMAIN sess
                       /\ sessions' = sessions \cup {r.session_id}
                       /\ DOMAIN sess' = DOMAIN sess \cup {r.session_id}
                       /\ \A x \in DOMAIN sess : sess'[x] = sess[x] ]_vars

\* an empty message was refused, and turns were started on a session id
\* that is not in the registry and without a session id
C35_Witness ==
    /\ \E i \in DOMAIN chat_replies : chat_replies[i].status = 400
    /\ \E i \in DOMAIN chat_replies :
          /\ chat_replies[i].status = 200
          /\ chat_replies[i].asked = NoSuchSession
          /\ chat_replies[i].session_id \in sessions
    /\ \E i \in DOMAIN chat_replies :
          /\ chat_replies[i].status = 200
          /\ chat_replies[i].asked = 0
    /\ Len(wk) = 2

----------------------------------------------------------------------------
(* Properties of the channel under stop and poll (SpecCancel) *)

\* C36: once a channel is done, no step appends to its chunks or changes
\* them, and no step sets done back to false.
C36_DoneFreezesChannel ==
    [][ \A b \in DOMAIN buf :
            buf[b].done =>
                /\ buf'[b].chunks = buf[b].chunks
                /\ buf'[b].done ]_vars

\* C37: no thread of collect_response ever finds the entry of its response
\* id missing from response_buffers when it appends a chunk or writes done or
\* error: no thread dies of the KeyError.
C37_WorkerFindsChannel ==
    \A w \in DOMAIN wk : wk[w].pc # "crashed"

----------------------------------------------------------------------------
(* Properties of the remembered stop reason (SpecInv) *)

IsMessageStop(d) == d.l.parse = "object" /\ EventType(d.l) = "message_stop"

\* a decoded message_delta that carries the stop reason tool_use
ReportsToolUse(d) ==
    /\ d.l.parse = "object"
    /\ EventType(d.l) = "message_delta"
    /\ d.l.delta = "object"
    /\ d.l.stop_reason = "tool_use"

\* the decoded lines of the message that the message_stop at i closes come
\* after the previous message_stop
SameMessage(q, k, i) ==
    k < i /\ \A j \in DOMAIN q : (k <= j /\ j < i) => ~IsMessageStop(q[j])

\* C38: the first line of an Invocation is decoded with no stop reason
\* remembered, and a decoded message_stop lets the reader go on only if a
\* message_delta of the same message carried the stop reason tool_use.
C38_StopReasonOfSameMessage ==
    \A w \in DOMAIN wk :
        /\ wk[w].decoded # <<>> => wk[w].decoded[1].lsr = NONE
        /\ \A i \in DOMAIN wk[w].decoded :
              (IsMessageStop(wk[w].decoded[i])
               /\ wk[w].decoded[i].ctl = "continue") =>
                  \E k \in DOMAIN wk[w].decoded :
                      /\ SameMessage(wk[w].decoded, k, i)
                      /\ ReportsToolUse(wk[w].decoded[k])

----------------------------------------------------------------------------
(* Properties of collect_response (SpecInv) *)

\* C39: the step in which the generator yields a text appends to the channel
\* exactly one entry, of type "chunk" and with the yielded text as content.
C39_TextStoredAsChunk ==
    [][ \A w \in DOMAIN wk :
            (/\ Len(wk'[w].yielded) = Len(wk[w].yielded) + 1
             /\ Last(wk'[w].yielded).kind = "text") =>
                /\ Len(buf'[w].chunks) = Len(buf[w].chunks) + 1
                /\ IsTextChunk(Last(buf'[w].chunks),
                               Last(wk'[w].yielded).content) ]_vars

----------------------------------------------------------------------------
(* Properties of the exit handling after a terminal event (SpecInv) *)

\* C40: when the read loop ended on a terminal event and the generator
\* yielded the exit-code error, the child had exited by itself with a status
\* other than 0: it was not killed by the wait of lines 518-523.
C40_ErrorOnlyForOwnExit ==
    \A w \in DOMAIN wk :
        (/\ wk[w].why = "terminal"
         /\ \E i \in DOMAIN wk[w].yielded :
               wk[w].yielded[i] =
                   YText(ExitErrorText(procs[wk[w].proc].returncode))) =>
            /\ procs[wk[w].proc].killed_by = "none"
            /\ procs[wk[w].proc].returncode # 0
====
